---- MODULE Spec2Model ----
(***************************************************************************)
(* Model of filter.py, the mpistat data filter.                            *)
(*                                                                         *)
(* Text is modelled as it is in the program: a line, a field, a directory  *)
(* argument and a base64 string are sequences of byte values (ASCII        *)
(* codes).  A decoded path is a pathlib.Path, modelled by its root and its *)
(* sequence of components.  An evaluation that raises is modelled by the   *)
(* name of the exception in place of the returned value.                   *)
(*                                                                         *)
(* The choice of the input source (a gzip file or stdin, lines 173-182)    *)
(* and the logging calls are left out: the input is the sequence of lines  *)
(* that the source yields.                                                 *)
(***************************************************************************)
EXTENDS Integers, Sequences, FiniteSets, TLC

VARIABLES
    args_directory, \* args.directory: the --directory values
    args_owner,     \* args.owner: the --owner values
    mpistat,        \* args.mpistat: the lines of the input stream
    filtered,       \* the mpistatFilter built at startup
    read_lines,     \* lines read by the stream loop
    read_bytes,     \* bytes read since the last progress report
    stdout,         \* the lines written to sys.stdout.buffer
    pc,             \* position of the program
    exc,            \* the exception that ended the run ("none" otherwise)
    results         \* outcomes of applying each filter to one record

vars == <<args_directory, args_owner, mpistat, filtered, read_lines, read_bytes,
          stdout, pc, exc, results>>

\* 50MiB
READ_REPORT == 50 * (1024 ^ 2)

----------------------------------------------------------------------------
(* Bounds of the model *)

\* longest --directory argument, in bytes
MaxDir == 3
\* longest raw path stored in a record, in bytes
MaxPath == 4
\* longest input stream, in lines
MaxLines == 3
\* largest uid and gid appearing in a record or a numeric constraint
MaxId == 2
\* most --owner values of a filter set
MaxFilters == 2

----------------------------------------------------------------------------
(* Bytes *)

\* "/"
Slash == 47
\* "="
Pad == 61
\* ":"
Colon == 58
Tab == 9
Newline == 10

\* the bytes paths and directory arguments are made of: "/", "a", "."
PathBytes == {Slash, 97, 46}

RECURSIVE StringsUpTo(_, _)
StringsUpTo(S, n) ==
    IF n = 0 THEN {<<>>}
    ELSE LET shorter == StringsUpTo(S, n - 1)
         IN  shorter \cup {Append(s, b) : s \in {t \in shorter : Len(t) = n - 1}, b \in S}

startswith(s, prefix) ==
    /\ Len(prefix) <= Len(s)
    /\ SubSeq(s, 1, Len(prefix)) = prefix

endswith(s, suffix) ==
    /\ Len(suffix) <= Len(s)
    /\ SubSeq(s, Len(s) - Len(suffix) + 1, Len(s)) = suffix

----------------------------------------------------------------------------
(* base64 *)

\* the byte of the base64 alphabet standing for the 6-bit value v
b64char(v) ==
    IF v < 26 THEN 65 + v
    ELSE IF v < 52 THEN 71 + v
    ELSE IF v < 62 THEN v - 4
    ELSE IF v = 62 THEN 43 ELSE 47

\* the 6-bit value of a byte of the base64 alphabet, 64 for any other byte
b64value(c) ==
    IF c >= 65 /\ c <= 90 THEN c - 65
    ELSE IF c >= 97 /\ c <= 122 THEN c - 71
    ELSE IF c >= 48 /\ c <= 57 THEN c + 4
    ELSE IF c = 43 THEN 62
    ELSE IF c = 47 THEN 63 ELSE 64

RECURSIVE b64encode(_)
b64encode(s) ==
    IF Len(s) = 0 THEN <<>>
    ELSE IF Len(s) = 1 THEN
        << b64char(s[1] \div 4), b64char((s[1] % 4) * 16), Pad, Pad >>
    ELSE IF Len(s) = 2 THEN
        << b64char(s[1] \div 4), b64char((s[1] % 4) * 16 + s[2] \div 16),
           b64char((s[2] % 16) * 4), Pad >>
    ELSE
        << b64char(s[1] \div 4), b64char((s[1] % 4) * 16 + s[2] \div 16),
           b64char((s[2] % 16) * 4 + s[3] \div 64), b64char(s[3] % 64) >>
        \o b64encode(SubSeq(s, 4, Len(s)))

\* binascii.a2b_base64, not strict: bytes outside the alphabet are dropped,
\* a complete pad sequence ends the data, an incomplete last quad is an error.
RECURSIVE a2b_base64(_, _, _, _, _)
a2b_base64(s, quad_pos, leftchar, pads, out) ==
    IF Len(s) = 0 THEN
        IF quad_pos # 0 THEN [error |-> "binascii.Error"]
        ELSE [error |-> "none", bytes |-> out]
    ELSE LET c == Head(s)
             v == b64value(c)
             rest == Tail(s)
         IN  IF c = Pad THEN
                 IF quad_pos >= 2 /\ quad_pos + pads + 1 >= 4
                 THEN [error |-> "none", bytes |-> out]
                 ELSE a2b_base64(rest, quad_pos,
                                 leftchar, IF quad_pos >= 2 THEN pads + 1 ELSE pads, out)
             ELSE IF v = 64 THEN a2b_base64(rest, quad_pos, leftchar, pads, out)
             ELSE IF quad_pos = 0 THEN a2b_base64(rest, 1, v, 0, out)
             ELSE IF quad_pos = 1 THEN
                 a2b_base64(rest, 2, v % 16, 0, Append(out, leftchar * 4 + v \div 16))
             ELSE IF quad_pos = 2 THEN
                 a2b_base64(rest, 3, v % 4, 0, Append(out, leftchar * 16 + v \div 4))
             ELSE a2b_base64(rest, 0, 0, 0, Append(out, leftchar * 64 + v))

b64decode(s) == a2b_base64(s, 0, 0, 0, <<>>)

\* bytes.decode() on the bytes of a path: ASCII bytes stand for themselves; a
\* byte of 128 or more is taken as an invalid sequence (the model's inputs hold
\* no multi-byte character: the only such byte they produce is 255).
decode(bytes) ==
    IF \E i \in 1..Len(bytes) : bytes[i] >= 128
    THEN [error |-> "UnicodeDecodeError"]
    ELSE [error |-> "none", str |-> bytes]

\* os.path.commonprefix of two strings
RECURSIVE commonprefix(_, _)
commonprefix(s1, s2) ==
    IF Len(s1) = 0 \/ Len(s2) = 0 \/ Head(s1) # Head(s2) THEN <<>>
    ELSE <<Head(s1)>> \o commonprefix(Tail(s1), Tail(s2))

----------------------------------------------------------------------------
(* pathlib *)

\* str.split on one separator byte
RECURSIVE split(_, _)
split(s, sep) ==
    IF \A i \in 1..Len(s) : s[i] # sep THEN <<s>>
    ELSE LET i == CHOOSE k \in 1..Len(s) :
                      s[k] = sep /\ \A j \in 1..(k - 1) : s[j] # sep
         IN  <<SubSeq(s, 1, i - 1)>> \o split(SubSeq(s, i + 1, Len(s)), sep)

\* pathlib.PurePosixPath: exactly two leading slashes are kept as the root "//",
\* one or three and more make the root "/"; empty and "." components are dropped.
Path(s) ==
    LET root == IF startswith(s, <<Slash, Slash>>) /\ ~startswith(s, <<Slash, Slash, Slash>>)
                THEN "//"
                ELSE IF startswith(s, <<Slash>>) THEN "/" ELSE ""
    IN  [root |-> root,
         parts |-> SelectSeq(split(s, Slash), LAMBDA c : c # <<>> /\ c # <<46>>)]

\* Path.parents
parents(p) ==
    {[root |-> p.root, parts |-> SubSeq(p.parts, 1, k)] : k \in 0..(Len(p.parts) - 1)}

----------------------------------------------------------------------------
(* The identity database: pwd.getpwuid and grp.getgrgid *)

\* the names "root", "alice" and "staff"
root == <<114, 111, 111, 116>>
alice == <<97, 108, 105, 99, 101>>
staff == <<115, 116, 97, 102, 102>>

\* /etc/passwd: only uids 0 and 1 have an entry
passwd == [uid \in {0, 1} |-> IF uid = 0 THEN root ELSE alice]
\* /etc/group: only gids 0 and 1 have an entry
groupdb == [gid \in {0, 1} |-> IF gid = 0 THEN root ELSE staff]

getpwuid(uid) ==
    IF uid \in DOMAIN passwd THEN [error |-> "none", name |-> passwd[uid]]
    ELSE [error |-> "KeyError"]

getgrgid(gid) ==
    IF gid \in DOMAIN groupdb THEN [error |-> "none", name |-> groupdb[gid]]
    ELSE [error |-> "KeyError"]

----------------------------------------------------------------------------
(* mpistatRecord *)

IsSpace(c) == c = 32 \/ (c >= 9 /\ c <= 13)
IsDigit(c) == c >= 48 /\ c <= 57

RECURSIVE strip(_)
strip(b) ==
    IF Len(b) > 0 /\ IsSpace(b[1]) THEN strip(Tail(b))
    ELSE IF Len(b) > 0 /\ IsSpace(b[Len(b)]) THEN strip(SubSeq(b, 1, Len(b) - 1))
    ELSE b

RECURSIVE digits(_)
digits(b) == IF Len(b) = 0 THEN 0 ELSE 10 * digits(SubSeq(b, 1, Len(b) - 1)) + (b[Len(b)] - 48)

\* int(bytes): surrounding white space is dropped; what is left must be decimal
\* digits (the model's inputs hold no sign and no underscore)
_to_int(b) ==
    LET t == strip(b)
    IN  IF Len(t) > 0 /\ \A i \in 1..Len(t) : IsDigit(t[i])
        THEN [error |-> "none", value |-> digits(t)]
        ELSE [error |-> "ValueError"]

\* datetime.fromtimestamp(int(b), tz=utc): the instant, as seconds of the epoch
\* (the model's timestamps are in datetime's range)
_to_datetime(b) == _to_int(b)

\* bytes.decode() of a field of the line: the model's lines are ASCII
_to_str(b) == [error |-> "none", value |-> b]

_adaptors(i) == IF i \in {1, 8} THEN "str" ELSE IF i \in {5, 6, 7} THEN "datetime" ELSE "int"

_adapt(i, field) ==
    IF _adaptors(i) = "str" THEN _to_str(field)
    ELSE IF _adaptors(i) = "datetime" THEN _to_datetime(field)
    ELSE _to_int(field)

\* the dataclass __init__ on the adapted fields, in the order of the fields: the
\* record, or the exception of the first field that does not adapt
_mpistatRecord(_fields) ==
    LET adapted == [i \in 1..11 |-> _adapt(i, _fields[i])]
        bad == {i \in 1..11 : adapted[i].error # "none"}
    IN  IF bad # {}
        THEN [error |-> adapted[CHOOSE i \in bad : \A j \in bad : i <= j].error]
        ELSE [error |-> "none",
              _path |-> adapted[1].value,
              size |-> adapted[2].value,
              uid |-> adapted[3].value,
              gid |-> adapted[4].value,
              atime |-> adapted[5].value,
              mtime |-> adapted[6].value,
              ctime |-> adapted[7].value,
              mode |-> adapted[8].value,
              inode_id |-> adapted[9].value,
              hardlinks |-> adapted[10].value,
              dev_id |-> adapted[11].value]

\* the record built without the check of the number of fields: zip() stops at
\* the shorter list, so fields after the eleventh are dropped
mpistatRecord_unchecked(record) ==
    LET _fields == split(record, Tab)
    IN  IF Len(_fields) < 11 THEN [error |-> "TypeError"]
        ELSE _mpistatRecord(SubSeq(_fields, 1, 11))

\* mpistatRecord.__init__: the record, or the exception raised
mpistatRecord(record) ==
    LET _fields == split(record, Tab)
    IN  IF Len(_fields) # 11 THEN [error |-> "AssertionError"]
        ELSE _mpistatRecord(_fields)

\* _mpistatRecord.path: Path(base64.b64decode(self._path).decode())
path(record) ==
    LET raw == b64decode(record._path)
        text == decode(raw.bytes)
    IN  IF raw.error # "none" THEN [error |-> raw.error]
        ELSE IF text.error # "none" THEN [error |-> text.error]
        ELSE [error |-> "none", value |-> Path(text.str)]

\* _mpistatRecord.user
user(record) == getpwuid(record.uid)

\* _mpistatRecord.group
group(record) == getgrgid(record.uid)

----------------------------------------------------------------------------
(* The filters.  An outcome is "True", "False" or the exception raised. *)

Bool(b) == IF b THEN "True" ELSE "False"

\* the prefix computed from the argument followed by a separator, whether or not
\* it ends with one already
directoryFilter_appending(directory) ==
    LET _with_trailing == directory \o <<Slash>>
        _without == SubSeq(_with_trailing, 1, Len(_with_trailing) - 1)
    IN  [class |-> "directoryFilter",
         directory |-> Path(directory),
         base64_prefix |-> commonprefix(b64encode(_with_trailing), b64encode(_without))]

\* directoryFilter.__init__
directoryFilter(directory) ==
    LET _with_trailing == IF endswith(directory, <<Slash>>) THEN directory
                          ELSE directory \o <<Slash>>
        _without == SubSeq(_with_trailing, 1, Len(_with_trailing) - 1)
    IN  [class |-> "directoryFilter",
         directory |-> Path(directory),
         base64_prefix |-> commonprefix(b64encode(_with_trailing), b64encode(_without))]

\* directoryFilter.__call__: record.path is read before the prefix is tested
directoryFilter__call__(self, record) ==
    LET rec_path == path(record)
    IN  IF rec_path.error # "none" THEN rec_path.error
        ELSE Bool(/\ startswith(record._path, self.base64_prefix)
                  /\ self.directory \in ({rec_path.value} \cup parents(rec_path.value)))

\* an identifier of an owner (_idT): None, an int or a name
IdInt(n) == [kind |-> "int", id |-> n, name |-> <<>>]
IdName(s) == [kind |-> "str", id |-> 0, name |-> s]
None == [kind |-> "none", id |-> 0, name |-> <<>>]

\* ownerFilter.__init__
ownerFilter(u, g) ==
    IF u = None /\ g = None THEN [error |-> "AssertionError"]
    ELSE [error |-> "none", class |-> "ownerFilter", user |-> u, group |-> g]

\* the comparison of ownerFilter.__call__, lines 119-120: the constraint against
\* the record's uid, or against record.user
user_match(self, record) ==
    IF self.user = None THEN "True"
    ELSE IF self.user.kind = "int" THEN Bool(self.user.id = record.uid)
    ELSE IF user(record).error # "none" THEN user(record).error
    ELSE Bool(self.user.name = user(record).name)

\* the group constraint compared with the record's uid
group_match_uid(self, record) ==
    IF self.group = None THEN "True"
    ELSE IF self.group.kind = "int" THEN Bool(self.group.id = record.uid)
    ELSE IF user(record).error # "none" THEN user(record).error
    ELSE Bool(self.group.name = user(record).name)

\* the comparison of lines 124-125: the constraint against the record's gid, or
\* against record.user
group_match(self, record) ==
    IF self.group = None THEN "True"
    ELSE IF self.group.kind = "int" THEN Bool(self.group.id = record.gid)
    ELSE IF user(record).error # "none" THEN user(record).error
    ELSE Bool(self.group.name = user(record).name)

\* ownerFilter.__call__: both comparisons are made, then combined
ownerFilter__call__(self, record) ==
    LET um == user_match(self, record)
        gm == group_match(self, record)
    IN  IF um \notin {"True", "False"} THEN um
        ELSE IF gm \notin {"True", "False"} THEN gm
        ELSE Bool(um = "True" /\ gm = "True")

\* f(record) for one filter of the list
Call(f, record) ==
    IF f.class = "directoryFilter" THEN directoryFilter__call__(f, record)
    ELSE ownerFilter__call__(f, record)

\* the lambda of _parse_owner: int(x) if x.isnumeric() else (x or None)
_parse_id(x) ==
    IF Len(x) > 0 /\ \A i \in 1..Len(x) : IsDigit(x[i]) THEN IdInt(digits(x))
    ELSE IF Len(x) = 0 THEN None
    ELSE IdName(x)

\* _parse_owner: the pair (user, group), or the exception of the unpacking
_parse_owner(owner) ==
    LET sides == split(IF \A i \in 1..Len(owner) : owner[i] # Colon
                       THEN owner \o <<Colon>> ELSE owner, Colon)
    IN  IF Len(sides) # 2 THEN [error |-> "ValueError"]
        ELSE [error |-> "none", user |-> _parse_id(sides[1]), group |-> _parse_id(sides[2])]

\* mpistatFilter.__init__: the filters of the directories, then of the owners
mpistatFilter(directories, owners) ==
    IF \E i \in 1..Len(owners) : ownerFilter(owners[i].user, owners[i].group).error # "none"
    THEN [error |-> "AssertionError"]
    ELSE [error |-> "none",
          filters |-> [i \in 1..Len(directories) |-> directoryFilter(directories[i])]
                      \o [i \in 1..Len(owners) |->
                            ownerFilter(owners[i].user, owners[i].group)]]

\* all() in place of any(): stops at the first filter that returns false
RECURSIVE any_all(_, _)
any_all(filters, record) ==
    IF Len(filters) = 0 THEN "True"
    ELSE LET r == Call(Head(filters), record)
         IN  IF r = "True" THEN any_all(Tail(filters), record) ELSE r

\* the result of the first filter alone
any_first(filters, record) ==
    IF Len(filters) = 0 THEN "False" ELSE Call(Head(filters), record)

\* any(f(record) for f in filters): stops at the first filter that returns true,
\* and at the first that raises
RECURSIVE any(_, _)
any(filters, record) ==
    IF Len(filters) = 0 THEN "False"
    ELSE LET r == Call(Head(filters), record)
         IN  IF r = "False" THEN any(Tail(filters), record) ELSE r

\* mpistatFilter.__call__
mpistatFilter__call__(self, record) == any(self.filters, record)

----------------------------------------------------------------------------
(* Inputs *)

\* the digit of a small id
Digit(n) == <<48 + n>>

\* a line of mpistat data with 11 fields: path, size, uid, gid, atime, mtime,
\* ctime, mode, inode_id, hardlinks, dev_id
Line(_path, uid, gid) ==
    _path \o <<Tab>> \o Digit(0) \o <<Tab>> \o uid \o <<Tab>> \o gid \o <<Tab>>
    \o Digit(0) \o <<Tab>> \o Digit(0) \o <<Tab>> \o Digit(0) \o <<Tab>> \o <<102>> \o <<Tab>>
    \o Digit(1) \o <<Tab>> \o Digit(1) \o <<Tab>> \o Digit(1) \o <<Newline>>

\* the same line without its last field, and with one field more
Line10(_path, uid, gid) ==
    LET l == Line(_path, uid, gid) IN SubSeq(l, 1, Len(l) - 3) \o <<Newline>>
Line12(_path, uid, gid) ==
    LET l == Line(_path, uid, gid) IN SubSeq(l, 1, Len(l) - 1) \o <<Tab>> \o Digit(1) \o <<Newline>>

Ids == 0..MaxId

----------------------------------------------------------------------------
(* The program *)

\* lines 184-185: the owners are parsed and the filters built
Startup ==
    /\ pc = "start"
    /\ LET owners == [i \in 1..Len(args_owner) |-> _parse_owner(args_owner[i])]
       IN  IF \E i \in 1..Len(owners) : owners[i].error # "none"
           THEN /\ pc' = "raised"
                /\ exc' = "ValueError"
                /\ UNCHANGED filtered
           ELSE IF mpistatFilter(args_directory, owners).error # "none"
           THEN /\ pc' = "raised"
                /\ exc' = mpistatFilter(args_directory, owners).error
                /\ UNCHANGED filtered
           ELSE /\ pc' = "stream"
                /\ exc' = "none"
                /\ filtered' = mpistatFilter(args_directory, owners)
    /\ UNCHANGED <<args_directory, args_owner, mpistat, read_lines, read_bytes, stdout,
                   results>>

\* a write in front of what was written: the order of the output is lost
write_front(buffer, record) == <<record>> \o buffer

\* sys.stdout.buffer.write(record)
write(buffer, record) == Append(buffer, record)

\* lines 189-197: one turn of the loop over the input
StreamLoop ==
    /\ pc = "stream"
    /\ read_lines < Len(mpistat)
    /\ read_lines' = read_lines + 1
    /\ read_bytes' = IF read_bytes + Len(mpistat[read_lines + 1]) > READ_REPORT
                     THEN (read_bytes + Len(mpistat[read_lines + 1])) % READ_REPORT
                     ELSE read_bytes + Len(mpistat[read_lines + 1])
    /\ LET record == mpistat[read_lines + 1]
           parsed == mpistatRecord(record)
           passed == mpistatFilter__call__(filtered, parsed)
       IN  IF parsed.error # "none"
           THEN /\ pc' = "raised"
                /\ exc' = parsed.error
                /\ UNCHANGED stdout
           ELSE IF passed \notin {"True", "False"}
           THEN /\ pc' = "raised"
                /\ exc' = passed
                /\ UNCHANGED stdout
           ELSE /\ stdout' = IF passed = "True" THEN write(stdout, record) ELSE stdout
                /\ UNCHANGED <<pc, exc>>
    /\ UNCHANGED <<args_directory, args_owner, mpistat, filtered, results>>

\* line 199: the input is exhausted
Finished ==
    /\ pc = "stream"
    /\ read_lines = Len(mpistat)
    /\ pc' = "finished"
    /\ UNCHANGED <<args_directory, args_owner, mpistat, filtered, read_lines, read_bytes,
                   stdout, exc, results>>

\* each filter of the list, and the list as a whole, applied to the record of
\* the first input line
Evaluate ==
    /\ pc = "stream"
    /\ Len(mpistat) = 1
    /\ LET record == mpistatRecord(mpistat[1])
       IN  /\ record.error = "none"
           /\ results' = [each |-> [i \in 1..Len(filtered.filters) |->
                                       Call(filtered.filters[i], record)],
                          all |-> mpistatFilter__call__(filtered, record)]
    /\ pc' = "evaluated"
    /\ UNCHANGED <<args_directory, args_owner, mpistat, filtered, read_lines, read_bytes,
                   stdout, exc>>

----------------------------------------------------------------------------
(* The specifications *)

Start ==
    /\ pc = "start"
    /\ filtered = None
    /\ read_lines = 0
    /\ read_bytes = 0
    /\ stdout = <<>>
    /\ exc = "none"
    /\ results = <<>>

\* "/a"
DirA == <<Slash, 97>>

\* raw path fields: the encodings of the paths, and fields that do not decode (an
\* encoding cut short; "/w==", the byte 255)
Paths == StringsUpTo(PathBytes, MaxPath)
CutShort == {SubSeq(b64encode(s), 1, 4 * ((Len(s) + 2) \div 3) - k) :
                s \in StringsUpTo(PathBytes, 2) \ {<<>>}, k \in 1..3}
Undecodable == CutShort \cup {<<47, 119, Pad, Pad>>}
PathFields == {b64encode(s) : s \in Paths} \cup Undecodable

\* the lines of the streams: well-formed ones, one whose path does not decode, and
\* malformed ones (10 fields, 12 fields, a uid that is no number)
StreamLines ==
    { Line(b64encode(DirA \o DirA), Digit(0), Digit(0)),
      Line(b64encode(DirA \o <<97>>), Digit(1), Digit(1)),
      Line(b64encode(DirA), Digit(2), Digit(2)),
      Line(<<89, 81>>, Digit(0), Digit(1)),
      Line10(b64encode(DirA), Digit(0), Digit(0)),
      Line12(b64encode(DirA), Digit(0), Digit(0)),
      Line(b64encode(DirA), <<120>>, Digit(0)) }

\* the program: any stream of up to MaxLines lines, with or without a directory
\* filter and an owner filter ("0:", "alice:", and ":" which constrains nothing)
Init ==
    /\ Start
    /\ args_directory \in {<<>>, <<DirA>>}
    /\ args_owner \in {<<>>, <<Digit(0) \o <<Colon>>>>, <<alice \o <<Colon>>>>, <<<<Colon>>>>}
    /\ mpistat \in StringsUpTo(StreamLines, MaxLines)

Next == Startup \/ StreamLoop \/ Finished

Spec == Init /\ [][Next]_vars

\* directoryFilter: a directory argument, the same argument followed by a
\* separator, and one record
InitDirectory ==
    /\ Start
    /\ \E d \in StringsUpTo(PathBytes, MaxDir) : args_directory = <<d, d \o <<Slash>>>>
    /\ args_owner = <<>>
    /\ \E f \in PathFields : mpistat = <<Line(f, Digit(0), Digit(0))>>

NextEvaluate == Startup \/ Evaluate

SpecDirectory == InitDirectory /\ [][NextEvaluate]_vars

\* the sides of an --owner value: empty, an id, a name
OwnerSides == {<<>>} \cup {Digit(n) : n \in Ids} \cup {root, alice, staff}
OwnerArgs == {u \o <<Colon>> \o g : u \in OwnerSides, g \in OwnerSides}
                \cup (OwnerSides \ {<<>>})
                \cup {Digit(0) \o <<Colon>> \o Digit(0) \o <<Colon>>}

\* ownerFilter: one --owner value and one record
InitOwner ==
    /\ Start
    /\ args_directory = <<>>
    /\ \E o \in OwnerArgs : args_owner = <<o>>
    /\ \E u \in Ids, g \in Ids : mpistat = <<Line(b64encode(DirA), Digit(u), Digit(g))>>

SpecOwner == InitOwner /\ [][NextEvaluate]_vars

\* mpistatFilter: up to MaxFilters owner filters after at most one directory filter
FilterOwners ==
    {Digit(0) \o <<Colon>>, <<Colon>> \o Digit(MaxId), alice \o <<Colon>>, <<Colon>> \o root}
FilterLines ==
    {Line(f, Digit(u), Digit(u)) : f \in {b64encode(DirA \o DirA), b64encode(<<97>>), <<89, 81>>},
                                   u \in Ids}

InitFilterSet ==
    /\ Start
    /\ args_directory \in {<<>>, <<DirA>>}
    /\ args_owner \in StringsUpTo(FilterOwners, MaxFilters)
    /\ \E l \in FilterLines : mpistat = <<l>>

SpecFilterSet == InitFilterSet /\ [][NextEvaluate]_vars

----------------------------------------------------------------------------
(* The claims *)

\* the record of the first input line
Rec1 == mpistatRecord(mpistat[1])

\* directory d is path p or one of its ancestors, component by component
IsAtOrUnder(d, p) ==
    /\ d.root = p.root
    /\ Len(d.parts) <= Len(p.parts)
    /\ SubSeq(p.parts, 1, Len(d.parts)) = d.parts

\* the line passes the filter set
Passes(line) ==
    LET record == mpistatRecord(line)
    IN  /\ record.error = "none"
        /\ mpistatFilter__call__(filtered, record) = "True"

\* the line does not split into 11 fields, or one of its numeric fields is no integer
Malformed(line) ==
    LET fields == split(line, Tab)
    IN  \/ Len(fields) # 11
        \/ \E i \in {2, 3, 4, 5, 6, 7, 9, 10, 11} : _to_int(fields[i]).error # "none"

\* C1: when the run completes, the output is exactly the input lines that passed
\* the filter set, each once, unchanged and in input order (and while the stream
\* is read, the output is that of the lines read so far).
C1_OutputIsPassingLines ==
    pc \in {"stream", "finished"} =>
        /\ stdout = SelectSeq(SubSeq(mpistat, 1, read_lines), Passes)
        /\ pc = "finished" => read_lines = Len(mpistat)

\* a completed run that wrote some of its lines, in more than one write, and
\* dropped another
C1_Witness ==
    /\ pc = "finished"
    /\ Len(stdout) >= 2
    /\ stdout[1] # stdout[2]
    /\ Len(stdout) < Len(mpistat)

\* C2: directoryFilter(D) returns true on a record whose path decodes if and only
\* if the decoded path is D or lies under D, component by component.
C2_DirectoryMembership ==
    pc = "evaluated" =>
        \A i \in 1..Len(filtered.filters) :
            path(Rec1).error = "none" =>
                (results.each[i] = "True"
                    <=> IsAtOrUnder(Path(args_directory[i]), path(Rec1).value))

\* C3: the base64 prefix test never rejects a record that the decoded test
\* accepts.
C3_PrefixNoFalseNegative ==
    pc = "evaluated" =>
        \A i \in 1..Len(filtered.filters) :
            (/\ path(Rec1).error = "none"
             /\ IsAtOrUnder(filtered.filters[i].directory, path(Rec1).value))
                => startswith(Rec1._path, filtered.filters[i].base64_prefix)

\* C4, as claimed: the filter of a directory without a trailing separator and the
\* filter of the same directory with one are the same filter, with the same
\* result on every record.
C4_TrailingSeparator ==
    (pc = "evaluated" /\ ~endswith(args_directory[1], <<Slash>>)) =>
        /\ filtered.filters[1] = filtered.filters[2]
        /\ results.each[1] = results.each[2]

\* C4, amended: the same, for a directory argument that is not empty.
C4_TrailingSeparatorNonEmpty ==
    (/\ pc = "evaluated"
     /\ args_directory[1] # <<>>
     /\ ~endswith(args_directory[1], <<Slash>>)) =>
        /\ filtered.filters[1] = filtered.filters[2]
        /\ results.each[1] = results.each[2]

\* both filters of "/a" and "/a/" accept a record under /a
C4_Witness ==
    /\ pc = "evaluated"
    /\ args_directory = <<DirA, DirA \o <<Slash>>>>
    /\ results.each = <<"True", "True">>
    /\ Len(path(Rec1).value.parts) > 1

\* C5: a filter on a group name alone matches if and only if the name of the
\* record's gid in the identity database is that name.
C5_GroupNameFromGid ==
    (/\ pc = "evaluated"
     /\ filtered.filters[1].user = None
     /\ filtered.filters[1].group.kind = "str"
     /\ Rec1.gid \in DOMAIN groupdb) =>
        (results.each[1] = "True" <=> groupdb[Rec1.gid] = filtered.filters[1].group.name)

\* C6: with numeric constraints, the filter matches if and only if each
\* constraint that is present equals the record's id: the user the uid, the
\* group the gid.
C6_NumericOwner ==
    (/\ pc = "evaluated"
     /\ filtered.filters[1].user.kind \in {"int", "none"}
     /\ filtered.filters[1].group.kind \in {"int", "none"}) =>
        results.each[1] =
            Bool(/\ filtered.filters[1].user.kind = "int"
                    => Rec1.uid = filtered.filters[1].user.id
                 /\ filtered.filters[1].group.kind = "int"
                    => Rec1.gid = filtered.filters[1].group.id)

\* a numeric user alone matches a record of another gid
C6_Witness ==
    /\ pc = "evaluated"
    /\ filtered.filters[1].user.kind = "int"
    /\ filtered.filters[1].group = None
    /\ Rec1.gid # Rec1.uid
    /\ results.each[1] = "True"

\* C7, as claimed: the filter set returns true if and only if one of its filters
\* returns true.
C7_AnyPredicate ==
    pc = "evaluated" =>
        (results.all = "True"
            <=> \E i \in 1..Len(filtered.filters) : results.each[i] = "True")

\* C7, amended: the filter set returns true if and only if one of its filters
\* returns true and every filter before it returns false; it returns false if
\* and only if every filter returns false, so that an empty set returns false.
C7_AnyPredicateInOrder ==
    pc = "evaluated" =>
        /\ results.all = "True"
            <=> \E i \in 1..Len(filtered.filters) :
                    /\ results.each[i] = "True"
                    /\ \A j \in 1..(i - 1) : results.each[j] = "False"
        /\ results.all = "False"
            <=> \A i \in 1..Len(filtered.filters) : results.each[i] = "False"
        /\ Len(filtered.filters) = 0 => results.all = "False"

\* a set whose first filter rejects the record and whose second accepts it
C7_Witness ==
    /\ pc = "evaluated"
    /\ Len(filtered.filters) >= 2
    /\ results.each[1] = "False"
    /\ results.each[2] = "True"
    /\ results.all = "True"

\* C8: at a malformed line the run ends with the exception of the decoding: no
\* line is read after it, and the output is that of the lines before it.
C8_MalformedAborts ==
    \A i \in 1..read_lines :
        Malformed(mpistat[i]) =>
            /\ pc = "raised"
            /\ read_lines = i
            /\ exc \in {"AssertionError", "ValueError"}
            /\ stdout = SelectSeq(SubSeq(mpistat, 1, i - 1), Passes)

\* a run ended by a malformed line that is not the last, after a line was written
C8_Witness ==
    /\ pc = "raised"
    /\ read_lines >= 2
    /\ read_lines < Len(mpistat)
    /\ Malformed(mpistat[read_lines])
    /\ Len(stdout) >= 1

\* C9: on a record whose encoded path does not start with base64_prefix,
\* directoryFilter returns false whatever the path field holds, without decoding.
C9_NoDecodeOnReject ==
    pc = "evaluated" =>
        \A i \in 1..Len(filtered.filters) :
            ~startswith(Rec1._path, filtered.filters[i].base64_prefix)
                => results.each[i] = "False"

\* the orders of n filters
Orders(n) == {p \in [1..n -> 1..n] : \A i, j \in 1..n : p[i] = p[j] => i = j}
Reordered(filters, p) == [i \in 1..Len(filters) |-> filters[p[i]]]

\* C10, as claimed: the outcome of the filter set on a record (true, false or the
\* exception raised) is the same in every order of its filters.
C10_OrderIndependent ==
    pc = "evaluated" =>
        \A p \in Orders(Len(filtered.filters)) :
            any(Reordered(filtered.filters, p), Rec1) = results.all

\* C10, amended: when no filter of the set raises on the record the outcome is
\* the same in every order; when one does, the orders may differ, but never as
\* true against false.
C10_OrderIndependentUnlessRaised ==
    pc = "evaluated" =>
        \A p \in Orders(Len(filtered.filters)) :
            LET other == any(Reordered(filtered.filters, p), Rec1)
            IN  /\ (\A i \in 1..Len(filtered.filters) : results.each[i] \in {"True", "False"})
                    => other = results.all
                /\ {other, results.all} # {"True", "False"}

\* a set of two filters, none raising, that accepts through its second filter only
C10_Witness ==
    /\ pc = "evaluated"
    /\ Len(filtered.filters) >= 2
    /\ results.each[1] = "False"
    /\ results.each[Len(filtered.filters)] = "True"
    /\ \A i \in 1..Len(filtered.filters) : results.each[i] \in {"True", "False"}

====
